---------------------------- MODULE Spec2Model ----------------------------
(***************************************************************************)
(* Model of serial_sequence_repeater1.1.py: the batch dispatcher           *)
(* send_batch_and_wait_done (tokenizer + DONE handshake) and the driver    *)
(* main (open, startup batches, repeating batches, interrupt, cleanup).    *)
(*                                                                         *)
(* Text is a sequence of one-character strings, bytes are a sequence of    *)
(* integers 0..255.  Python indices are kept 0-based (tokens[i] of the     *)
(* source is tokens[i + 1] here).                                          *)
(***************************************************************************)
EXTENDS Integers, Sequences, FiniteSets, TLC

(***************************************************************************)
(* Bounds of the model.                                                    *)
(***************************************************************************)
\* longest batch, in tokens, that SpecTokenize draws
MaxTokens == 3
\* lines the device may have pending in the serial input buffer
MaxRx == 2
\* lines without DONE the device sends during one call
MaxNoise == 2

(***************************************************************************)
(* Characters, bytes, str.upper, str.split, str.strip, encode, decode.     *)
(***************************************************************************)
UpperLetters ==
    << "A", "B", "C", "D", "E", "F", "G", "H", "I", "J", "K", "L", "M",
       "N", "O", "P", "Q", "R", "S", "T", "U", "V", "W", "X", "Y", "Z" >>

LowerLetters ==
    << "a", "b", "c", "d", "e", "f", "g", "h", "i", "j", "k", "l", "m",
       "n", "o", "p", "q", "r", "s", "t", "u", "v", "w", "x", "y", "z" >>

Digits == << "0", "1", "2", "3", "4", "5", "6", "7", "8", "9" >>

Range(s) == { s[k] : k \in DOMAIN s }

IndexOf(s, c) == CHOOSE k \in DOMAIN s : s[k] = c

Chars ==
    Range(UpperLetters) \cup Range(LowerLetters) \cup Range(Digits)
        \cup { " ", "\t", "\n", "\r", "-" }

\* the ASCII codes of the modelled characters
OrdTable ==
    [ c \in Chars |->
        IF c \in Range(UpperLetters) THEN 64 + IndexOf(UpperLetters, c)
        ELSE IF c \in Range(LowerLetters) THEN 96 + IndexOf(LowerLetters, c)
        ELSE IF c \in Range(Digits) THEN 47 + IndexOf(Digits, c)
        ELSE IF c = " " THEN 32
        ELSE IF c = "\t" THEN 9
        ELSE IF c = "\n" THEN 10
        ELSE IF c = "\r" THEN 13
        ELSE 45 ]

ChrTable ==
    [ b \in { OrdTable[c] : c \in Chars } |-> CHOOSE c \in Chars : OrdTable[c] = b ]

\* the ASCII code of a character (ord)
ord(c) == OrdTable[c]

\* the character of an ASCII code (chr)
chr(b) == ChrTable[b]

\* str.encode(): every modelled character is ASCII, one byte each
encode(s) == [ k \in DOMAIN s |-> ord(s[k]) ]

\* a byte that starts or continues no valid UTF-8 sequence on its own
Undecodable(b) == b > 127

RECURSIVE DropUndecodable(_)
DropUndecodable(bs) ==
    IF bs = << >> THEN << >>
    ELSE IF Undecodable(Head(bs)) THEN DropUndecodable(Tail(bs))
    ELSE << Head(bs) >> \o DropUndecodable(Tail(bs))

\* bytes.decode(errors='ignore')
decode(bs) ==
    LET ok == DropUndecodable(bs) IN [ k \in DOMAIN ok |-> chr(ok[k]) ]

IsSpace(c) == c \in { " ", "\t", "\n", "\r" }

RECURSIVE lstrip(_)
lstrip(s) ==
    IF s = << >> THEN << >>
    ELSE IF IsSpace(Head(s)) THEN lstrip(Tail(s))
    ELSE s

RECURSIVE rstrip(_)
rstrip(s) ==
    IF s = << >> THEN << >>
    ELSE IF IsSpace(s[Len(s)]) THEN rstrip(SubSeq(s, 1, Len(s) - 1))
    ELSE s

\* str.strip()
strip(s) == rstrip(lstrip(s))

UpperTable ==
    [ c \in Chars |->
        IF c \in Range(LowerLetters) THEN UpperLetters[IndexOf(LowerLetters, c)]
        ELSE c ]

UpperChar(c) == UpperTable[c]

\* str.upper()
upper(s) == [ k \in DOMAIN s |-> UpperChar(s[k]) ]

RECURSIVE SplitAcc(_, _, _)
SplitAcc(s, cur, acc) ==
    IF s = << >>
    THEN IF cur = << >> THEN acc ELSE Append(acc, cur)
    ELSE IF IsSpace(Head(s))
         THEN SplitAcc(Tail(s), << >>, IF cur = << >> THEN acc ELSE Append(acc, cur))
         ELSE SplitAcc(Tail(s), Append(cur, Head(s)), acc)

\* str.split() with no separator: runs of whitespace separate, none are kept
split(s) == SplitAcc(s, << >>, << >>)

\* "DONE" in line
DONE == << "D", "O", "N", "E" >>

Contains(s, sub) ==
    \E k \in 1..(Len(s) - Len(sub) + 1) : SubSeq(s, k, k + Len(sub) - 1) = sub


(***************************************************************************)
(* The batch lists of main and the inputs of the model.                    *)
(***************************************************************************)
startup_commands ==
    << << "A", " ", "2", " ", "1", "0", "0", "0" >>,
       << "T", " ", "2", " ", "2", "0", "0", "0" >>,
       << "L", " ", "2", " ", "2", "0", "0" >>,
       << "P", " ", "2", " ", "0", " ", "P", " ", "1", " ", "0", " ", "P", " ", "0", " ", "0" >> >>

commands ==
    << << "P", " ", "2", " ", "0" >>,
       << "P", " ", "2", " ", "0" >>,
       << "P", " ", "2", " ", "-", "1", "5", "0", "0", "0" >>,
       << "P", " ", "2", " ", "-", "1", "5", "0", "0", "0" >> >>

\* tokens a drawn batch is made of: the six commands, two of them in other
\* letter cases, two arguments and a word that is no command
Tokens ==
    { << "A" >>, << "T" >>, << "L" >>, << "P" >>, << "D" >>, << "A", "L", "L" >>,
      << "p" >>, << "a", "L", "l" >>,
      << "2" >>, << "-", "1", "5" >>, << "X", "Y", "Z" >> }

TokenSeqs == UNION { [ 1..n -> Tokens ] : n \in 0..MaxTokens }

RECURSIVE Join(_, _)
Join(ts, sep) ==
    IF ts = << >> THEN << >>
    ELSE IF Len(ts) = 1 THEN ts[1]
    ELSE ts[1] \o sep \o Join(Tail(ts), sep)

\* the batch strings drawn: the given tokens with single spaces, or padded
\* and separated by runs of whitespace; the batches of main; "XYZ P 1 5"
\* and "ALL D 3 P 2 0"
BatchStrings ==
    { Join(ts, << " " >>) : ts \in TokenSeqs }
        \cup { << " " >> \o Join(ts, << "\t", " " >>) \o << "\n" >> : ts \in TokenSeqs }
        \cup Range(startup_commands) \cup Range(commands)
        \cup { << "X", "Y", "Z", " ", "P", " ", "1", " ", "5" >>,
               << "A", "L", "L", " ", "D", " ", "3", " ", "P", " ", "2", " ", "0" >> }

\* the batches SpecBatch calls the dispatcher with: "", "XYZ", "P 2", "D",
\* "ALL", "D 2 P 2", "xyz p 2 -15 all" and the longest batch of main
CallBatches ==
    { << >>,
      << "X", "Y", "Z" >>,
      << "P", " ", "2" >>,
      << "D" >>,
      << "A", "L", "L" >>,
      << "D", " ", "2", " ", "P", " ", "2" >>,
      << "x", "y", "z", " ", "p", " ", "2", " ", "-", "1", "5", " ", "a", "l", "l" >>,
      startup_commands[4] }

\* what the device puts on the line, as bytes up to and including the newline
RawOK == encode(<< "O", "K", "\n" >>)
RawBlank == << 255, 32, 13, 10 >>
RawDone == encode(<< "D", "O", "N", "E", "\n" >>)
RawDoneMid == encode(<< "M", "2", " ", "D", "O", "N", "E", "\r", "\n" >>)

RawLines == { RawOK, RawBlank, RawDone, RawDoneMid }

\* ser.readline().decode(errors='ignore').strip() of everything readline can
\* return: a line of the device, or b"" on a timeout
Cleaned == [ raw \in RawLines \cup { << >> } |-> strip(decode(raw)) ]

\* a local name that is not bound yet
Unbound == << "<unbound>" >>

(***************************************************************************)
(* State.                                                                  *)
(*   pc          where the program is: "start" (argument parsing, before   *)
(*               the port is opened), "settle" (port open, before main's   *)
(*               try block), "startup_for", "repeat_for" (the loop heads), *)
(*               "tokenize", "wait" (the two loops of                      *)
(*               send_batch_and_wait_done), "return" (the call returned),  *)
(*               "raise" (an exception leaves the try block or the call),  *)
(*               "finally", "terminated"                                   *)
(*   args_list   --list was given                                          *)
(*   ser         the port: "none", "open", "closed"                        *)
(*   exit        how the process ended: "running", "0", "1", "uncaught"    *)
(*   exc         the exception in flight: "none", "SerialException",       *)
(*               "KeyboardInterrupt"                                       *)
(*   phase, idx  the loop main is in and its 0-based position              *)
(*   cmd_group, tokens, i, buffer, line   the locals of the dispatcher     *)
(*   rx          the lines waiting in the serial input buffer              *)
(* History, kept for the properties:                                       *)
(*   sent        the byte strings written during the current call          *)
(*   got         the non-empty lines read during the current call          *)
(*   sawEmpty    a read of the current call yielded an empty line          *)
(*   nwait       times the current call entered its handshake wait         *)
(*   noise       lines without DONE the device sent during the call        *)
(*   inflight    batches dispatched minus handshakes that read DONE        *)
(*   ndisp       how often each startup batch was dispatched               *)
(*   last        the batch dispatched last, << phase, idx >>               *)
(*   interrupted, farewell   an interrupt arrived; "Exiting..." printed    *)
(*   prior       for each batch string of an earlier call that reached its *)
(*               wait, the byte strings that call wrote                    *)
(*   stale       how many lines at the head of rx the device sent before   *)
(*               the last write of the current call                        *)
(***************************************************************************)
VARIABLES pc, args_list, ser, exit, exc, phase, idx,
          cmd_group, tokens, i, buffer, line, rx,
          sent, got, sawEmpty, nwait, noise, inflight, ndisp, last,
          interrupted, farewell, prior, stale

mainVars == << args_list, ser, exit, phase, idx, ndisp, last, farewell >>
callVars ==
    << cmd_group, tokens, i, buffer, line, sent, got, sawEmpty, nwait, prior,
       stale >>
vars == << pc, args_list, ser, exit, exc, phase, idx,
           cmd_group, tokens, i, buffer, line, rx,
           sent, got, sawEmpty, nwait, noise, inflight, ndisp, last,
           interrupted, farewell, prior, stale >>

(***************************************************************************)
(* send_batch_and_wait_done                                                *)
(***************************************************************************)
\* Enter with a token list that outlives the call: tokens += cmd_group.split()
Enter_AppendTokens(b) ==
    /\ cmd_group' = b
    /\ tokens' = (IF tokens = Unbound THEN << >> ELSE tokens) \o split(b)
    /\ i' = 0
    /\ buffer' = Unbound
    /\ line' = Unbound
    /\ sent' = << >>
    /\ got' = << >>
    /\ sawEmpty' = FALSE
    /\ nwait' = 0
    /\ noise' = 0
    /\ inflight' = inflight + 1
    /\ prior' = IF nwait = 1 THEN (cmd_group :> sent) @@ prior ELSE prior
    /\ stale' = Len(rx)
    /\ pc' = "tokenize"

\* entry of the function: tokens = cmd_group.split(); i = 0
Enter(b) ==
    /\ cmd_group' = b
    /\ tokens' = split(b)
    /\ i' = 0
    /\ buffer' = Unbound
    /\ line' = Unbound
    /\ sent' = << >>
    /\ got' = << >>
    /\ sawEmpty' = FALSE
    /\ nwait' = 0
    /\ noise' = 0
    /\ inflight' = inflight + 1
    /\ prior' = IF nwait = 1 THEN (cmd_group :> sent) @@ prior ELSE prior
    /\ stale' = Len(rx)
    /\ pc' = "tokenize"

\* tk without .upper()
tk_NoUpper == tokens[i + 1]

\* tk = tokens[i].upper()
tk == upper(tokens[i + 1])

ALL == << "A", "L", "L" >>

ArgCommands == { << "A" >>, << "T" >>, << "L" >>, << "D" >>, << "P" >> }

\* the sub-command of the command the cursor is on
sub ==
    IF tk = << "D" >>
    THEN << "D", " " >> \o tokens[i + 2]
    ELSE tk \o << " " >> \o tokens[i + 2] \o << " " >> \o tokens[i + 3]

\* the command the cursor is on has its arguments
HasArgs ==
    IF tk = << "D" >> THEN i + 1 < Len(tokens) ELSE i + 2 < Len(tokens)

\* this iteration calls ser.write
Writes == tk = ALL \/ (tk \in ArgCommands /\ HasArgs)

\* the bytes this iteration writes
Written == IF tk = ALL THEN encode(ALL \o << "\n" >>) ELSE encode(sub \o << "\n" >>)

\* Advance that leaves the cursor on an unknown token
Advance_Stuck ==
    IF tk = ALL THEN i + 1
    ELSE IF tk \in ArgCommands THEN (IF tk = << "D" >> THEN i + 2 ELSE i + 3)
    ELSE i

\* Advance that moves past the command word only
Advance_ByOne == i + 1

\* Advance with D taking two arguments like the other commands
Advance_DTakesTwo ==
    IF tk = ALL THEN i + 1
    ELSE IF tk \in ArgCommands THEN i + 3
    ELSE i + 1

\* the cursor after this iteration
Advance ==
    IF tk = ALL THEN i + 1
    ELSE IF tk \in ArgCommands THEN (IF tk = << "D" >> THEN i + 2 ELSE i + 3)
    ELSE i + 1

\* buffer = ""; the wait begins
BeginWait ==
    /\ buffer' = << >>
    /\ nwait' = nwait + 1
    /\ pc' = "wait"

\* TokenizeStep that skips a malformed command instead of breaking
TokenizeStep_SkipMalformed ==
    /\ pc = "tokenize"
    /\ i < Len(tokens)
    /\ IF tk \in ArgCommands /\ ~HasArgs
       THEN /\ i' = i + 1
            /\ UNCHANGED << sent, buffer, nwait, pc >>
       ELSE /\ i' = Advance
            /\ sent' = IF Writes THEN Append(sent, Written) ELSE sent
            /\ UNCHANGED << buffer, nwait, pc >>
    /\ stale' = IF sent' # sent THEN Len(rx) ELSE stale
    /\ UNCHANGED << mainVars, exc, cmd_group, tokens, line, rx, got, sawEmpty,
                    noise, inflight, interrupted, prior >>

\* TokenizeStep that returns on a malformed command instead of breaking
TokenizeStep_ReturnMalformed ==
    /\ pc = "tokenize"
    /\ i < Len(tokens)
    /\ IF tk \in ArgCommands /\ ~HasArgs
       THEN /\ pc' = "return"
            /\ UNCHANGED << i, sent, buffer, nwait >>
       ELSE /\ i' = Advance
            /\ sent' = IF Writes THEN Append(sent, Written) ELSE sent
            /\ UNCHANGED << buffer, nwait, pc >>
    /\ stale' = IF sent' # sent THEN Len(rx) ELSE stale
    /\ UNCHANGED << mainVars, exc, cmd_group, tokens, line, rx, got, sawEmpty,
                    noise, inflight, interrupted, prior >>

\* TokenizeStep that breaks on an unknown token as on a malformed command
TokenizeStep_AbortUnknown ==
    /\ pc = "tokenize"
    /\ i < Len(tokens)
    /\ IF (tk \in ArgCommands /\ ~HasArgs) \/ (tk # ALL /\ tk \notin ArgCommands)
       THEN /\ BeginWait
            /\ UNCHANGED << i, sent >>
       ELSE /\ i' = Advance
            /\ sent' = IF Writes THEN Append(sent, Written) ELSE sent
            /\ UNCHANGED << buffer, nwait, pc >>
    /\ stale' = IF sent' # sent THEN Len(rx) ELSE stale
    /\ UNCHANGED << mainVars, exc, cmd_group, tokens, line, rx, got, sawEmpty,
                    noise, inflight, interrupted, prior >>

\* one iteration of the tokenizer loop
TokenizeStep ==
    /\ pc = "tokenize"
    /\ i < Len(tokens)
    /\ IF tk \in ArgCommands /\ ~HasArgs
       THEN \* malformed: break
            /\ BeginWait
            /\ UNCHANGED << i, sent >>
       ELSE /\ i' = Advance
            /\ sent' = IF Writes THEN Append(sent, Written) ELSE sent
            /\ UNCHANGED << buffer, nwait, pc >>
    /\ stale' = IF sent' # sent THEN Len(rx) ELSE stale
    /\ UNCHANGED << mainVars, exc, cmd_group, tokens, line, rx, got, sawEmpty,
                    noise, inflight, interrupted, prior >>

\* the loop condition fails
TokenizeDone ==
    /\ pc = "tokenize"
    /\ ~(i < Len(tokens))
    /\ BeginWait
    /\ UNCHANGED << mainVars, exc, cmd_group, tokens, i, line, rx, sent, got,
                    sawEmpty, noise, inflight, interrupted, prior, stale >>

\* ser.write raises
WriteFail ==
    /\ pc = "tokenize"
    /\ i < Len(tokens)
    /\ Writes
    /\ exc' = "SerialException"
    /\ pc' = "raise"
    /\ UNCHANGED << mainVars, callVars, rx, noise, inflight, interrupted >>

\* Handle that tests line.startswith("DONE") instead of "DONE" in line
Handle_StartsWith(raw) ==
    LET l == Cleaned[raw]
    IN  /\ line' = l
        /\ IF l # << >>
           THEN /\ got' = Append(got, l)
                /\ buffer' = buffer \o l
                /\ UNCHANGED sawEmpty
                /\ IF Len(l) >= 4 /\ SubSeq(l, 1, 4) = DONE
                   THEN pc' = "return" /\ inflight' = inflight - 1
                   ELSE UNCHANGED << pc, inflight >>
           ELSE /\ sawEmpty' = TRUE
                /\ UNCHANGED << got, buffer, pc, inflight >>

\* Handle that gives up on an empty read instead of reading again
Handle_EmptyEnds(raw) ==
    LET l == Cleaned[raw]
    IN  /\ line' = l
        /\ IF l # << >>
           THEN /\ got' = Append(got, l)
                /\ buffer' = buffer \o l
                /\ UNCHANGED sawEmpty
                /\ IF Contains(l, DONE)
                   THEN pc' = "return" /\ inflight' = inflight - 1
                   ELSE UNCHANGED << pc, inflight >>
           ELSE /\ sawEmpty' = TRUE
                /\ pc' = "return"
                /\ UNCHANGED << got, buffer, inflight >>

\* Handle that takes any non-empty line as the acknowledgment
Handle_AnyLine(raw) ==
    LET l == Cleaned[raw]
    IN  /\ line' = l
        /\ IF l # << >>
           THEN /\ got' = Append(got, l)
                /\ buffer' = buffer \o l
                /\ UNCHANGED sawEmpty
                /\ pc' = "return"
                /\ inflight' = IF Contains(l, DONE) THEN inflight - 1 ELSE inflight
           ELSE /\ sawEmpty' = TRUE
                /\ UNCHANGED << got, buffer, pc, inflight >>

\* Handle with buffer = line instead of buffer += line
Handle_Overwrite(raw) ==
    LET l == Cleaned[raw]
    IN  /\ line' = l
        /\ IF l # << >>
           THEN /\ got' = Append(got, l)
                /\ buffer' = l
                /\ UNCHANGED sawEmpty
                /\ IF Contains(l, DONE)
                   THEN pc' = "return" /\ inflight' = inflight - 1
                   ELSE UNCHANGED << pc, inflight >>
           ELSE /\ sawEmpty' = TRUE
                /\ UNCHANGED << got, buffer, pc, inflight >>

\* what an iteration of the wait does with the bytes readline returned
Handle(raw) ==
    LET l == Cleaned[raw]
    IN  /\ line' = l
        /\ IF l # << >>
           THEN /\ got' = Append(got, l)
                /\ buffer' = buffer \o l
                /\ UNCHANGED sawEmpty
                /\ IF Contains(l, DONE)
                   THEN pc' = "return" /\ inflight' = inflight - 1
                   ELSE UNCHANGED << pc, inflight >>
           ELSE /\ sawEmpty' = TRUE
                /\ UNCHANGED << got, buffer, pc, inflight >>

\* readline returns the next pending line
ReadLine ==
    /\ pc = "wait"
    /\ rx # << >>
    /\ Handle(Head(rx))
    /\ rx' = Tail(rx)
    /\ stale' = IF stale > 0 THEN stale - 1 ELSE 0
    /\ UNCHANGED << mainVars, exc, cmd_group, tokens, i, sent, nwait, noise,
                    interrupted, prior >>

\* readline times out (timeout=1) and returns b""
ReadTimeout ==
    /\ pc = "wait"
    /\ rx = << >>
    /\ Handle(<< >>)
    /\ UNCHANGED << mainVars, exc, cmd_group, tokens, i, sent, nwait, noise, rx,
                    interrupted, prior, stale >>

\* readline raises
ReadFail ==
    /\ pc = "wait"
    /\ exc' = "SerialException"
    /\ pc' = "raise"
    /\ UNCHANGED << mainVars, callVars, rx, noise, inflight, interrupted >>

(***************************************************************************)
(* The environment: the device and the operator.                           *)
(***************************************************************************)
\* the lines of the device that do not acknowledge
NoiseLines == { raw \in RawLines : ~Contains(Cleaned[raw], DONE) }

IsNoise(raw) == raw \in NoiseLines

DeviceSend(raw) ==
    /\ ser = "open"
    /\ pc \notin { "raise", "finally", "terminated" }
    /\ Len(rx) < MaxRx
    /\ IF IsNoise(raw)
       THEN noise < MaxNoise /\ noise' = noise + 1
       ELSE UNCHANGED noise
    /\ rx' = Append(rx, raw)
    /\ UNCHANGED << pc, mainVars, exc, callVars, inflight, interrupted >>

\* positions inside main's try block (the call included)
InTry == pc \in { "startup_for", "repeat_for", "tokenize", "wait", "return" }

\* SIGINT: KeyboardInterrupt is raised where the program is
Interrupt ==
    /\ ~interrupted
    /\ interrupted' = TRUE
    /\ \/ /\ InTry
          /\ exc' = "KeyboardInterrupt"
          /\ pc' = "raise"
          /\ UNCHANGED exit
       \/ /\ pc \in { "start", "settle" }
          /\ exc' = "KeyboardInterrupt"
          /\ pc' = "terminated"
          /\ exit' = "uncaught"
    /\ UNCHANGED << args_list, ser, phase, idx, ndisp, last, farewell,
                    callVars, rx, noise, inflight >>

(***************************************************************************)
(* main                                                                    *)
(***************************************************************************)
\* --list: list_ports(); sys.exit(0)
ListAndExit ==
    /\ pc = "start"
    /\ args_list
    /\ pc' = "terminated"
    /\ exit' = "0"
    /\ UNCHANGED << args_list, ser, exc, phase, idx, ndisp, last, farewell,
                    callVars, rx, noise, inflight, interrupted >>

\* ser = Serial(args.port, args.baud, timeout=1) succeeds
OpenPort ==
    /\ pc = "start"
    /\ ~args_list
    /\ ser' = "open"
    /\ pc' = "settle"
    /\ UNCHANGED << args_list, exit, exc, phase, idx, ndisp, last, farewell,
                    callVars, rx, noise, inflight, interrupted >>

\* OpenFail that reports the error and goes on without a port
OpenFail_Continue ==
    /\ pc = "start"
    /\ ~args_list
    /\ pc' = "settle"
    /\ UNCHANGED << args_list, ser, exit, exc, phase, idx, ndisp, last, farewell,
                    callVars, rx, noise, inflight, interrupted >>

\* Serial(...) raises SerialException: sys.exit(1)
OpenFail ==
    /\ pc = "start"
    /\ ~args_list
    /\ pc' = "terminated"
    /\ exit' = "1"
    /\ UNCHANGED << args_list, ser, exc, phase, idx, ndisp, last, farewell,
                    callVars, rx, noise, inflight, interrupted >>

\* the settle delay and the list literals are done; the try block is entered
EnterTry ==
    /\ pc = "settle"
    /\ phase' = "startup"
    /\ idx' = 0
    /\ pc' = "startup_for"
    /\ UNCHANGED << args_list, ser, exit, exc, ndisp, last, farewell,
                    callVars, rx, noise, inflight, interrupted >>

\* for batch in startup_commands: send_batch_and_wait_done(ser, batch)
StartupNext ==
    /\ pc = "startup_for"
    /\ IF idx < Len(startup_commands)
       THEN /\ Enter(startup_commands[idx + 1])
            /\ ndisp' = [ ndisp EXCEPT ![idx] = @ + 1 ]
            /\ last' = << "startup", idx >>
            /\ UNCHANGED << phase, idx >>
       ELSE /\ phase' = "repeat"
            /\ idx' = 0
            /\ pc' = "repeat_for"
            /\ UNCHANGED << callVars, noise, inflight, ndisp, last >>
    /\ UNCHANGED << args_list, ser, exit, exc, farewell, rx, interrupted >>

\* RepeatNext without the enclosing while True: one pass, then the cleanup
RepeatNext_OnePass ==
    /\ pc = "repeat_for"
    /\ IF idx < Len(commands)
       THEN /\ Enter(commands[idx + 1])
            /\ last' = << "repeat", idx >>
            /\ UNCHANGED idx
       ELSE /\ pc' = "finally"
            /\ UNCHANGED << idx, callVars, noise, inflight, last >>
    /\ UNCHANGED << args_list, ser, exit, exc, phase, ndisp, farewell, rx,
                    interrupted >>

\* while True: for idx, batch in enumerate(commands): send_batch_and_wait_done
RepeatNext ==
    /\ pc = "repeat_for"
    /\ IF idx < Len(commands)
       THEN /\ Enter(commands[idx + 1])
            /\ last' = << "repeat", idx >>
            /\ UNCHANGED idx
       ELSE /\ idx' = 0
            /\ UNCHANGED << pc, callVars, noise, inflight, last >>
    /\ UNCHANGED << args_list, ser, exit, exc, phase, ndisp, farewell, rx,
                    interrupted >>

\* SleepAndLoop that leaves the startup loop after its first batch
SleepAndLoop_LeaveStartup ==
    /\ pc = "return"
    /\ idx' = IF phase = "startup" THEN Len(startup_commands) ELSE idx + 1
    /\ pc' = IF phase = "startup" THEN "startup_for" ELSE "repeat_for"
    /\ UNCHANGED << args_list, ser, exit, exc, phase, ndisp, last, farewell,
                    callVars, rx, noise, inflight, interrupted >>

\* the call returned: time.sleep(args.delay), then the next loop iteration
SleepAndLoop ==
    /\ pc = "return"
    /\ idx' = idx + 1
    /\ pc' = IF phase = "startup" THEN "startup_for" ELSE "repeat_for"
    /\ UNCHANGED << args_list, ser, exit, exc, phase, ndisp, last, farewell,
                    callVars, rx, noise, inflight, interrupted >>

\* Except without the except KeyboardInterrupt clause: nothing is caught
Except_NoCatch ==
    /\ pc = "raise"
    /\ pc' = "finally"
    /\ UNCHANGED << args_list, ser, exit, exc, phase, idx, ndisp, last, farewell,
                    callVars, rx, noise, inflight, interrupted >>

\* Except with a bare except clause: every exception is caught
Except_CatchAll ==
    /\ pc = "raise"
    /\ farewell' = TRUE
    /\ exc' = "none"
    /\ pc' = "finally"
    /\ UNCHANGED << args_list, ser, exit, phase, idx, ndisp, last,
                    callVars, rx, noise, inflight, interrupted >>

\* an exception leaves the try block: except KeyboardInterrupt prints the
\* farewell, anything else stays in flight
Except ==
    /\ pc = "raise"
    /\ IF exc = "KeyboardInterrupt"
       THEN farewell' = TRUE /\ exc' = "none"
       ELSE UNCHANGED << farewell, exc >>
    /\ pc' = "finally"
    /\ UNCHANGED << args_list, ser, exit, phase, idx, ndisp, last,
                    callVars, rx, noise, inflight, interrupted >>

\* finally: ser.close(); then the process ends
Finally ==
    /\ pc = "finally"
    /\ ser' = "closed"
    /\ pc' = "terminated"
    /\ exit' = IF exc = "none" THEN "0" ELSE "uncaught"
    /\ UNCHANGED << args_list, exc, phase, idx, ndisp, last, farewell,
                    callVars, rx, noise, inflight, interrupted >>

(***************************************************************************)
(* Specifications.                                                         *)
(***************************************************************************)
\* the whole program
Init ==
    /\ pc = "start"
    /\ args_list \in BOOLEAN
    /\ ser = "none"
    /\ exit = "running"
    /\ exc = "none"
    /\ phase = "none"
    /\ idx = 0
    /\ cmd_group = Unbound
    /\ tokens = Unbound
    /\ i = 0
    /\ buffer = Unbound
    /\ line = Unbound
    /\ rx = << >>
    /\ sent = << >>
    /\ got = << >>
    /\ sawEmpty = FALSE
    /\ nwait = 0
    /\ noise = 0
    /\ inflight = 0
    /\ ndisp = [ k \in 0..(Len(startup_commands) - 1) |-> 0 ]
    /\ last = << "none", 0 >>
    /\ interrupted = FALSE
    /\ farewell = FALSE
    /\ prior = << >>
    /\ stale = 0

Dispatcher ==
    \/ TokenizeStep
    \/ TokenizeDone
    \/ WriteFail
    \/ ReadLine
    \/ ReadTimeout
    \/ ReadFail

Next ==
    \/ ListAndExit
    \/ OpenPort
    \/ OpenFail
    \/ EnterTry
    \/ StartupNext
    \/ RepeatNext
    \/ SleepAndLoop
    \/ Except
    \/ Finally
    \/ Dispatcher
    \/ Interrupt
    \/ \E raw \in RawLines : DeviceSend(raw)

Spec == Init /\ [][Next]_vars

\* the steps of the program with no exception in flight; it runs as long as
\* it can
Program ==
    \/ ListAndExit
    \/ OpenPort
    \/ OpenFail
    \/ EnterTry
    \/ StartupNext
    \/ RepeatNext
    \/ SleepAndLoop
    \/ TokenizeStep
    \/ TokenizeDone
    \/ ReadLine
    \/ ReadTimeout

\* the runs of the whole program in which no interrupt arrives and no read
\* or write fails
NextLive ==
    \/ Program
    \/ \E raw \in RawLines : DeviceSend(raw)

\* those runs, the program running on, with a device that answers: it does
\* not leave the input buffer without a line with DONE for ever
SpecLive ==
    /\ Init
    /\ [][NextLive]_vars
    /\ WF_vars(Program)
    /\ WF_vars(DeviceSend(RawDone))

\* one call send_batch_and_wait_done(ser, cmd_group) on an open port
InitCall(batches) ==
    /\ pc = "tokenize"
    /\ args_list = FALSE
    /\ ser = "open"
    /\ exit = "running"
    /\ exc = "none"
    /\ phase = "none"
    /\ idx = 0
    /\ cmd_group \in batches
    /\ tokens = split(cmd_group)
    /\ i = 0
    /\ buffer = Unbound
    /\ line = Unbound
    /\ rx = << >>
    /\ sent = << >>
    /\ got = << >>
    /\ sawEmpty = FALSE
    /\ nwait = 0
    /\ noise = 0
    /\ inflight = 1
    /\ ndisp = [ k \in 0..(Len(startup_commands) - 1) |-> 0 ]
    /\ last = << "none", 0 >>
    /\ interrupted = FALSE
    /\ farewell = FALSE
    /\ prior = << >>
    /\ stale = 0

\* the whole call, with the device and the operator
InitBatch == InitCall(CallBatches)

NextBatch ==
    \/ Dispatcher
    \/ Interrupt
    \/ \E raw \in RawLines : DeviceSend(raw)

SpecBatch == InitBatch /\ [][NextBatch]_vars

\* the whole program, where a raised exception is handled: the except clause
\* and the finally clause run once they are reached
SpecUnwind == Init /\ [][Next]_vars /\ WF_vars(Except) /\ WF_vars(Finally)

\* the tokenizing phase of the call, on every drawn batch string
InitTokenize == InitCall(BatchStrings)

NextTokenize ==
    \/ TokenizeStep
    \/ TokenizeDone
    \/ WriteFail

SpecTokenize == InitTokenize /\ [][NextTokenize]_vars

\* the tokenizing phase when no write fails; the loop runs on
NextTokenizeLive ==
    \/ TokenizeStep
    \/ TokenizeDone

SpecTokenizeLive ==
    InitTokenize /\ [][NextTokenizeLive]_vars /\ WF_vars(NextTokenizeLive)

(***************************************************************************)
(* Properties of the tokenizer.                                            *)
(***************************************************************************)
TwoArgWords == { << "A" >>, << "T" >>, << "L" >>, << "P" >> }

\* tokens made only of A, T, L, P with two arguments each, D with one, ALL
RECURSIVE WellFormed(_)
WellFormed(ts) ==
    \/ ts = << >>
    \/ /\ ts[1] = << "A", "L", "L" >>
       /\ WellFormed(Tail(ts))
    \/ /\ ts[1] = << "D" >>
       /\ Len(ts) >= 2
       /\ WellFormed(SubSeq(ts, 3, Len(ts)))
    \/ /\ ts[1] \in TwoArgWords
       /\ Len(ts) >= 3
       /\ WellFormed(SubSeq(ts, 4, Len(ts)))

\* greedy left-to-right grouping of well-formed tokens
RECURSIVE Greedy(_)
Greedy(ts) ==
    IF ts = << >> THEN << >>
    ELSE LET n == IF ts[1] = << "A", "L", "L" >> THEN 1
                  ELSE IF ts[1] = << "D" >> THEN 2 ELSE 3
         IN  << SubSeq(ts, 1, n) >> \o Greedy(SubSeq(ts, n + 1, Len(ts)))

\* a group of tokens as the bytes of one line
LineOf(group) == encode(Join(group, << " " >>) \o << "\n" >>)

LinesOf(groups) == [ k \in DOMAIN groups |-> LineOf(groups[k]) ]

\* the tokens of the written lines, in order
RECURSIVE TokensOf(_)
TokensOf(lines) ==
    IF lines = << >> THEN << >>
    ELSE split(decode(Head(lines))) \o TokensOf(Tail(lines))

\* the tokenizing phase is over
Tokenized == pc = "wait"

\* C1: for a batch made only of well-formed commands, the writes are exactly
\* the greedy left-to-right grouping of the tokens, one write per command, in
\* input order, every token in exactly one written line, ALL written alone;
\* "P 2 0 P 1 0 P 0 0" is written as "P 2 0", "P 1 0", "P 0 0".
C1_GreedyGrouping ==
    /\ (Tokenized /\ WellFormed(tokens)) =>
          /\ sent = LinesOf(Greedy(tokens))
          /\ TokensOf(sent) = tokens
          /\ \A k \in DOMAIN sent :
                LET g == Greedy(tokens)[k]
                IN  g[1] = << "A", "L", "L" >> => sent[k] = << 65, 76, 76, 10 >>
    /\ (Tokenized /\ cmd_group = startup_commands[4]) =>
          sent = << encode(<< "P", " ", "2", " ", "0", "\n" >>),
                    encode(<< "P", " ", "1", " ", "0", "\n" >>),
                    encode(<< "P", " ", "0", " ", "0", "\n" >>) >>

C1_Witness ==
    /\ Tokenized
    /\ WellFormed(tokens)
    /\ Len(tokens) = 6
    /\ Len(sent) = 3
    /\ sent[1] = << 65, 76, 76, 10 >>

\* the cursor is on A, T, L or P with fewer than two tokens after it, or on D
\* with none
OnMalformed ==
    /\ pc = "tokenize"
    /\ i < Len(tokens)
    /\ \/ upper(tokens[i + 1]) \in TwoArgWords /\ Len(tokens) - (i + 1) < 2
       \/ upper(tokens[i + 1]) = << "D" >> /\ Len(tokens) - (i + 1) < 1

\* C2: on a command that lacks arguments the dispatcher writes nothing for
\* it, stops parsing the batch (the cursor stays, the wait begins), raises
\* no error and keeps what it wrote before; once parsing is over nothing
\* more is written.
C2_MalformedAborts ==
    /\ [][OnMalformed =>
            /\ pc' = "wait"
            /\ sent' = sent
            /\ i' = i
            /\ exc' = "none"]_vars
    /\ [][pc # "tokenize" => sent' = sent]_vars
    /\ [](Tokenized /\ i < Len(tokens) =>
            /\ exc = "none"
            /\ \/ upper(tokens[i + 1]) \in TwoArgWords /\ Len(tokens) - (i + 1) < 2
               \/ upper(tokens[i + 1]) = << "D" >> /\ Len(tokens) - (i + 1) < 1)

C2_Witness ==
    /\ Tokenized
    /\ i = 2
    /\ Len(tokens) = 3
    /\ Len(sent) = 1

CommandWords == TwoArgWords \cup { << "D" >>, << "A", "L", "L" >> }

\* the cursor is on a token that is no command in any letter case
OnUnknown ==
    /\ pc = "tokenize"
    /\ i < Len(tokens)
    /\ upper(tokens[i + 1]) \notin CommandWords

\* C3: an unrecognized token is skipped: nothing is written, the cursor
\* moves by one and parsing goes on; one unrecognized token followed by
\* well-formed commands writes exactly those commands.
C3_UnknownSkipped ==
    /\ [][OnUnknown =>
            /\ sent' = sent
            /\ i' = i + 1
            /\ pc' = "tokenize"
            /\ exc' = "none"]_vars
    /\ [](/\ Tokenized
          /\ tokens # << >>
          /\ upper(tokens[1]) \notin CommandWords
          /\ WellFormed(Tail(tokens))
          => sent = LinesOf(Greedy(Tail(tokens))))

C3_Witness ==
    /\ Tokenized
    /\ tokens = << << "X", "Y", "Z" >>, << "P" >>, << "1" >>, << "5" >> >>
    /\ sent = << encode(<< "P", " ", "1", " ", "5", "\n" >>) >>

(***************************************************************************)
(* Properties of the handshake.                                            *)
(***************************************************************************)
HasDone(l) == Contains(l, DONE)

\* C4: the wait returns on the first line that contains DONE and on no
\* earlier line: while it waits no line read so far contains DONE, and when
\* it has returned the line read last contains DONE, is the only such line
\* read, and is the line it returned on.
C4_ReturnsOnFirstDone ==
    /\ pc = "wait" => \A k \in DOMAIN got : ~HasDone(got[k])
    /\ pc = "return" =>
          /\ got # << >>
          /\ HasDone(got[Len(got)])
          /\ \A k \in 1..(Len(got) - 1) : ~HasDone(got[k])
          /\ line = got[Len(got)]

C4_Witness ==
    /\ pc = "return"
    /\ Len(got) = 3
    /\ sawEmpty
    /\ got[3] = << "M", "2", " ", "D", "O", "N", "E" >>

\* a read of the wait has just been handled
ReadStep == pc = "wait" /\ (line' # line \/ sawEmpty' # sawEmpty \/ got' # got)

\* C5: nothing but a line containing DONE ends the wait: every step that
\* leaves it either returns on a line with DONE or raises the interrupt or
\* the serial error, and a read of an empty or non-matching line, however
\* many came before, leaves the call waiting.
C5_NoTimeout ==
    /\ [][pc = "wait" /\ pc' # "wait" =>
            \/ pc' = "return" /\ HasDone(line') /\ exc' = "none"
            \/ pc' = "raise" /\ exc' \in { "KeyboardInterrupt", "SerialException" }]_vars
    /\ [][ReadStep /\ exc' = "none" /\ ~HasDone(line') => pc' = "wait"]_vars
    /\ [](pc = "return" => \E k \in DOMAIN got : HasDone(got[k]))

C5_Witness ==
    /\ pc = "wait"
    /\ sawEmpty
    /\ Len(got) = MaxNoise
    /\ rx = << >>
    /\ exc = "none"

\* no line has been read in this call
NothingRead == got = << >> /\ ~sawEmpty /\ line = Unbound

\* C6: the handshake runs once per call and only after all the writes: while
\* the batch is parsed nothing has been read, a write never follows a read,
\* the parsing phase ends in the wait unless a write fails or an interrupt
\* arrives (also after a malformed command and with nothing written), and
\* the call returns only from its single wait, on a line with DONE.
C6_HandshakeAfterWrites ==
    /\ [](pc = "tokenize" => NothingRead /\ nwait = 0)
    /\ [][sent' # sent => pc = "tokenize" /\ NothingRead]_vars
    /\ [][pc = "tokenize" /\ pc' # "tokenize" /\ exc' = "none" =>
            pc' = "wait" /\ nwait' = 1 /\ buffer' = << >>]_vars
    /\ [](nwait <= 1)
    /\ [](pc = "return" => nwait = 1 /\ HasDone(line))

C6_Witness ==
    /\ pc = "return"
    /\ i < Len(tokens)
    /\ sent = << >>
    /\ nwait = 1

(***************************************************************************)
(* Properties of main.                                                     *)
(***************************************************************************)
\* a batch is handed to the dispatcher in this step
Dispatch == inflight' = inflight + 1

\* C7: at most one batch is in flight: a batch is dispatched, and anything
\* is written, only when every batch dispatched before has had its
\* handshake read a line containing DONE.
C7_OneBatchInFlight ==
    /\ [](inflight \in { 0, 1 })
    /\ [][Dispatch =>
            /\ inflight = 0
            /\ last[1] # "none" => HasDone(line)]_vars
    /\ [][sent' # sent /\ sent' # << >> =>
            /\ inflight = 1
            /\ \A k \in DOMAIN got : ~HasDone(got[k])]_vars

C7_Witness ==
    /\ last = << "repeat", 1 >>
    /\ pc = "tokenize"
    /\ Len(sent) = 1
    /\ inflight = 1

\* C8: once the port is open the process does not end without closing it.
C8_ClosedBeforeExit == pc = "terminated" => ser # "open"

\* the batch that follows b in the order main dispatches them
Succ(b) ==
    IF b[1] = "none" THEN << "startup", 0 >>
    ELSE IF b[1] = "startup"
         THEN IF b[2] + 1 < Len(startup_commands)
              THEN << "startup", b[2] + 1 >>
              ELSE << "repeat", 0 >>
         ELSE << "repeat", (b[2] + 1) % Len(commands) >>

BatchOf(b) == IF b[1] = "startup" THEN startup_commands[b[2] + 1] ELSE commands[b[2] + 1]

\* C9: the startup batches are dispatched once each, in list order, then
\* the repeating batches in list order, the first after the last, each
\* dispatch after the handshake of the one before; a repeating batch is
\* dispatched only when every startup batch has been, and no startup batch
\* is dispatched twice.
C9_DispatchOrder ==
    /\ [][Dispatch =>
            /\ last' = Succ(last)
            /\ cmd_group' = BatchOf(last')
            /\ inflight = 0]_vars
    /\ [][last' # last => Dispatch]_vars
    /\ [](\A k \in DOMAIN ndisp : ndisp[k] <= 1)
    /\ [](last[1] = "repeat" => \A k \in DOMAIN ndisp : ndisp[k] = 1)
    /\ [](last[1] = "startup" =>
            \A k \in DOMAIN ndisp : ndisp[k] = (IF k <= last[2] THEN 1 ELSE 0))

C9_Witness ==
    /\ last = << "repeat", 0 >>
    /\ phase = "repeat"
    /\ idx = 0
    /\ pc = "return"
    /\ got # << >>
    /\ \A k \in DOMAIN ndisp : ndisp[k] = 1
    /\ interrupted = FALSE

\* C10: the repeating phase has no end of its own: in a run where the port
\* was opened (the process did not end before), no interrupt arrives and no serial error occurs, with a device
\* that keeps answering, every batch of the repeating list is dispatched
\* again and again and the cleanup that closes the port is never reached.
C10_RepeatsForever ==
    /\ \A k \in 0..(Len(commands) - 1) :
          []<>(\/ pc = "terminated" /\ ser = "none"
               \/ last = << "repeat", k >> /\ pc = "tokenize" /\ i = 0)
    /\ [](pc \notin { "raise", "finally" } /\ ser # "closed")

C10_Witness ==
    /\ pc = "repeat_for"
    /\ idx = Len(commands)
    /\ last = << "repeat", Len(commands) - 1 >>
    /\ ~interrupted
    /\ exc = "none"
    /\ ser = "open"

(***************************************************************************)
(* Further properties of the tokenizer.                                    *)
(***************************************************************************)
\* how many tokens a command word takes, itself included
Arity(w) ==
    IF w \in TwoArgWords THEN 3 ELSE IF w = << "D" >> THEN 2 ELSE 1

\* the tokens, with each token that the left-to-right scan takes as a
\* command word (in any letter case) replaced by its uppercase
RECURSIVE Normalised(_)
Normalised(ts) ==
    IF ts = << >> THEN << >>
    ELSE LET w == upper(ts[1])
         IN  IF w \notin CommandWords
             THEN << ts[1] >> \o Normalised(Tail(ts))
             ELSE IF Arity(w) > Len(ts)
             THEN << w >> \o Tail(ts)
             ELSE << w >> \o SubSeq(ts, 2, Arity(w))
                         \o Normalised(SubSeq(ts, Arity(w) + 1, Len(ts)))

\* the groups a scan that knows only the uppercase literals writes
RECURSIVE Exact(_)
Exact(ts) ==
    IF ts = << >> THEN << >>
    ELSE IF ts[1] \notin CommandWords THEN Exact(Tail(ts))
    ELSE IF Arity(ts[1]) > Len(ts) THEN << >>
    ELSE << SubSeq(ts, 1, Arity(ts[1])) >>
            \o Exact(SubSeq(ts, Arity(ts[1]) + 1, Len(ts)))

\* the cursor is on a command, in any letter case, that has its arguments
OnCommand ==
    /\ pc = "tokenize"
    /\ i < Len(tokens)
    /\ upper(tokens[i + 1]) \in CommandWords
    /\ i + Arity(upper(tokens[i + 1])) <= Len(tokens)

\* C15: command words are recognised in any letter case and written in
\* uppercase: what a batch writes is what the batch with its command tokens
\* uppercased writes under a scan that knows only the uppercase literals (so
\* the letter case of a command token does not change the writes); each
\* write is the uppercase command word and its argument tokens as they are,
\* joined by single spaces, with one newline at the end.
C15_CaseInsensitiveCommands ==
    /\ [][OnCommand /\ exc' = "none" =>
            /\ i' = i + Arity(upper(tokens[i + 1]))
            /\ sent' = Append(sent, LineOf(<< upper(tokens[i + 1]) >>
                                           \o SubSeq(tokens, i + 2, i')))]_vars
    /\ [](Tokenized =>
            /\ sent = LinesOf(Exact(Normalised(tokens)))
            /\ \A k \in DOMAIN sent :
                  LET ws == split(decode(sent[k]))
                  IN  /\ ws[1] \in CommandWords
                      /\ Len(ws) = Arity(ws[1])
                      /\ sent[k] = LineOf(ws))

C15_Witness ==
    /\ Tokenized
    /\ tokens = << << "p" >>, << "a", "L", "l" >>, << "2" >> >>
    /\ sent = << encode(<< "P", " ", "a", "L", "l", " ", "2", "\n" >>) >>

\* C17: the arguments of a command are not looked at: whatever the tokens
\* after a command word are (a number, an unknown word, a command word),
\* they are written as they are in that command's line and the cursor moves
\* past them; the cursor never moves back, and the tokens written so far
\* are those before the cursor other than the skipped unknown ones, each
\* once.
C17_ArgumentsOpaque ==
    /\ [][pc = "tokenize" /\ sent' # sent =>
            /\ i' = i + Arity(upper(tokens[i + 1]))
            /\ split(decode(sent'[Len(sent')])) =
                  << upper(tokens[i + 1]) >> \o SubSeq(tokens, i + 2, i')
            /\ Len(sent') = Len(sent) + 1]_vars
    /\ [][pc = "tokenize" /\ pc' = "tokenize" => i' > i]_vars
    /\ [](pc \in { "tokenize", "wait" } =>
            /\ i <= Len(tokens)
            /\ sent = LinesOf(Exact(Normalised(SubSeq(tokens, 1, i))))
            /\ Len(TokensOf(sent)) <= i)

C17_Witness ==
    /\ Tokenized
    /\ tokens = << << "P" >>, << "A", "L", "L" >>, << "D" >> >>
    /\ i = 3
    /\ sent = << encode(<< "P", " ", "A", "L", "L", " ", "D", "\n" >>) >>

\* C18: the tokenizing phase ends for every batch string, the empty one
\* included: an iteration either moves the cursor forward by 1, 2 or 3, not
\* beyond the number of tokens, or leaves the loop for the wait with the
\* cursor where it is; when no write fails the wait is reached.
C18_TokenizerTerminates ==
    /\ [][pc = "tokenize" =>
            \/ /\ pc' = "tokenize"
               /\ i' - i \in { 1, 2, 3 }
               /\ i' <= Len(tokens)
            \/ /\ pc' = "wait"
               /\ i' = i
               /\ nwait' = 1]_vars
    /\ [](i <= Len(tokens))
    /\ <>(pc = "wait")

C18_Witness ==
    /\ pc = "wait"
    /\ tokens = << << "X", "Y", "Z" >>, << "D" >>, << "2" >> >>
    /\ i = 3
    /\ Len(sent) = 1

(***************************************************************************)
(* Further properties of the handshake.                                    *)
(***************************************************************************)
\* the lines, one after the other, as one text
RECURSIVE Concat(_)
Concat(ls) == IF ls = << >> THEN << >> ELSE Head(ls) \o Concat(Tail(ls))

\* C16: a read that yields an empty line (a timeout, or a line with nothing
\* left once undecodable bytes and surrounding whitespace are removed) is
\* ignored: it is not taken up among the logged lines, the buffer stays as it
\* is and the call keeps waiting; the buffer is empty when the wait begins,
\* in every call, and during the wait and on return it is the non-empty
\* lines read in this wait, in order, one after the other, the last of them
\* containing DONE on return.
C16_BufferOfNonEmptyLines ==
    /\ [][ReadStep /\ line' = << >> =>
            /\ buffer' = buffer
            /\ got' = got
            /\ pc' = "wait"
            /\ inflight' = inflight]_vars
    /\ [][pc = "tokenize" /\ pc' = "wait" =>
            buffer' = << >> /\ got' = << >>]_vars
    /\ [](pc \in { "wait", "return" } =>
            /\ buffer = Concat(got)
            /\ \A k \in DOMAIN got : got[k] # << >>)
    /\ [](pc = "return" => got # << >> /\ HasDone(got[Len(got)]))

C16_Witness ==
    /\ pc = "return"
    /\ last[1] = "repeat"
    /\ sawEmpty
    /\ Len(got) = 2
    /\ buffer = << "O", "K", "M", "2", " ", "D", "O", "N", "E" >>

(***************************************************************************)
(* Properties of the error paths.                                          *)
(***************************************************************************)
\* the interrupt arrived inside main's try block
InterruptedInTry == interrupted /\ phase # "none"

\* C11: an interrupt that arrives during the startup phase or the repeating
\* phase, a blocked handshake wait included, leads to a graceful shutdown:
\* from then on nothing is written and no batch is dispatched, the only
\* steps left are the except clause and the cleanup, the farewell is printed,
\* the port is closed, and the process ends with no error exit.
C11_InterruptShutsDown ==
    /\ [][/\ InterruptedInTry' =>
              /\ sent' = sent
              /\ ~Dispatch
              /\ pc' \in { "raise", "finally", "terminated" }
              /\ pc' = "raise" => exc' = "KeyboardInterrupt" /\ ser' = "open"
              /\ pc' = "finally" =>
                    farewell' /\ exc' = "none" /\ ser' = "open"
              /\ pc' = "terminated" =>
                    farewell' /\ exc' = "none" /\ ser' = "closed"
                    /\ exit' = "0"
          /\ InterruptedInTry => Except \/ Finally]_vars
    /\ (InterruptedInTry ~>
            (pc = "terminated" /\ farewell /\ ser = "closed" /\ exit = "0"))

C11_Witness ==
    /\ pc = "terminated"
    /\ interrupted
    /\ farewell
    /\ ser = "closed"
    /\ exit = "0"
    /\ phase = "repeat"
    /\ nwait = 1
    /\ inflight = 1
    /\ sent # << >>

\* C12: a failing ser.write or ser.readline is not handled in
\* send_batch_and_wait_done: it ends the dispatch at once, the exception
\* stays in flight through main's except clause, from then on nothing is
\* written, no batch is dispatched and the port is not reopened, and main
\* closes the port and the process ends with the error.
C12_SerialErrorPropagates ==
    /\ [][/\ exc' = "SerialException" =>
              /\ sent' = sent
              /\ ~Dispatch
              /\ ~farewell'
              /\ pc' \in { "raise", "finally", "terminated" }
              /\ pc' \in { "raise", "finally" } =>
                    ser' = "open" /\ exit' = "running"
              /\ pc' = "terminated" => ser' = "closed" /\ exit' = "uncaught"
          /\ exc = "SerialException" =>
              /\ exc' = "SerialException"
              /\ Except \/ Finally
          /\ exc # "SerialException" /\ exc' = "SerialException" =>
              /\ pc \in { "tokenize", "wait" }
              /\ pc' = "raise"
              /\ i' = i /\ buffer' = buffer /\ nwait' = nwait]_vars
    /\ (exc = "SerialException" ~>
            (pc = "terminated" /\ ser = "closed" /\ exit = "uncaught"))

C12_Witness ==
    /\ pc = "terminated"
    /\ exc = "SerialException"
    /\ ser = "closed"
    /\ exit = "uncaught"
    /\ Len(sent) = 1
    /\ i < Len(tokens)
    /\ nwait = 0
    /\ last = << "startup", 3 >>

\* nothing was opened, dispatched, written or waited for
NeverStarted ==
    /\ ser = "none"
    /\ phase = "none"
    /\ last = << "none", 0 >>
    /\ inflight = 0
    /\ sent = << >>
    /\ nwait = 0
    /\ \A k \in DOMAIN ndisp : ndisp[k] = 0

\* C13: with --list main exits with code 0 and never opens a port or writes
\* anything; without it, the first step either opens the port or, the open
\* failing, exits with code 1, and then no batch was dispatched, nothing was
\* written and no handshake was started.
C13_ExitCodes ==
    [][/\ pc = "start" /\ ~interrupted' =>
          IF args_list
          THEN pc' = "terminated" /\ exit' = "0"
          ELSE \/ ser' = "open" /\ exit' = "running" /\ pc' = "settle"
               \/ ser' = "none" /\ exit' = "1" /\ pc' = "terminated"
       /\ args_list' => NeverStarted' /\ exit' \in { "running", "0", "uncaught" }
       /\ exit' = "1" => NeverStarted' /\ pc' = "terminated" /\ ~args_list'
       /\ exit' = "0" /\ ser' = "none" => args_list' /\ pc' = "terminated"
       /\ exit \in { "0", "1" } => FALSE]_vars

C13_Witness ==
    /\ pc = "terminated"
    /\ exit = "1"
    /\ ~args_list
    /\ ~interrupted
    /\ NeverStarted

(***************************************************************************)
(* Properties that relate calls, or a call and the device.                 *)
(***************************************************************************)
\* C14: what a call writes is a function of its batch string alone: a call
\* on a batch string that an earlier call of the run was given, whatever
\* the device sent in between, has written, when its tokenizer ends, the
\* same sequence of byte strings as that earlier call.
C14_SameBatchSameWrites ==
    [][pc = "tokenize" /\ pc' = "wait" /\ cmd_group \in DOMAIN prior =>
          sent' = prior[cmd_group]]_vars

C14_Witness ==
    /\ pc = "wait"
    /\ last = << "repeat", 1 >>
    /\ cmd_group \in DOMAIN prior
    /\ prior[cmd_group] = sent
    /\ Len(sent) = 1
    /\ rx # << >>

\* the line the wait is about to read was sent by the device before the last
\* write of this call (before the call, when it wrote nothing)
HeadIsStale == stale > 0

\* C19: the handshake of a batch is satisfied only by a line with DONE that
\* the device sent in answer to that batch: the line on which the wait
\* returns was sent after the last write of the call, never before it (a
\* DONE left unread from an earlier batch, or from an earlier sub-command of
\* the same batch, does not end the wait).
C19_OnlyFreshDone ==
    [][pc = "wait" /\ pc' = "return" => ~HeadIsStale]_vars

=============================================================================
